---- MODULE Spec2Model ----
(***************************************************************************)
(* A model of the Nex runtime (src/Nex/Nex-runtime.py): the line parser,   *)
(* the class-level asset registry, the subsystem updates, the frame loop   *)
(* and the runtime facade (load_code / run).                               *)
(*                                                                         *)
(* Representation.  A Python str is a sequence of one-character strings.   *)
(* A Python float that holds a time is an integer number of clock quanta;  *)
(* a float that holds a coordinate is an integer number of tenths of a     *)
(* unit per quantum (so 9.8 * delta_time is 98 * delta_time and            *)
(* 1.0 * delta_time is 10 * delta_time).  None is the empty sequence and a *)
(* value v that may be None is <<v>>.                                      *)
(***************************************************************************)
EXTENDS Integers, Sequences, FiniteSets, TLC

VARIABLES
    text,        \* the source text handed to Parser.parse (parser runs)
    chunks,      \* how many fragments the text was composed of
    result,      \* outcome of the latest Parser.parse(text): None or <<outcome>>
    game_ir,     \* NexRuntime.game_ir, per runtime instance
    assets,      \* keys of the class-level dict AssetManager.assets
    build,       \* what the installed pyglet has turned out to provide
    pc,          \* position of the single thread of control
    cur,         \* the runtime instance whose run() is executing
    last_time,   \* GameLoop.start: last_time, counted from the reading of line 162
    delta_time,  \* GameLoop.start: delta_time of the current tick
    tick_log,    \* steps of update() completed in the current tick
    ticks,       \* ticks started in the current run
    teardown,    \* shutdown/cleanup steps completed in the current run
    interrupted, \* KeyboardInterrupt reached line 170 in the current run
    ret,         \* the latest facade call: its argument and its outcome
    load_log,    \* per runtime, the results of its last two load_code calls
    loaded,      \* per runtime, some load_code call on it returned True
    runs,        \* per runtime, run() calls since load_code returned True
    dt_sum,      \* the sum of the delta_times of the ticks of the current run
    dt_neg,      \* some tick of the current run had a negative delta_time
    inits,       \* init steps completed in the current run
    calls        \* number of facade calls made so far

vars == <<text, chunks, result, game_ir, assets, build, pc, cur, last_time,
          delta_time, tick_log, ticks, teardown, interrupted, ret, load_log,
          loaded, runs, dt_sum, dt_neg, inits, calls>>

parserVars == <<text, chunks, result>>
runtimeVars == <<game_ir, assets, build, pc, cur, last_time, delta_time,
                 tick_log, ticks, teardown, interrupted, ret, load_log,
                 loaded, runs, dt_sum, dt_neg, inits, calls>>

None == <<>>
Some(v) == <<v>>

(***************************************************************************)
(* Python str primitives used by Parser.parse.                             *)
(***************************************************************************)

\* characters for which str.isspace() holds, among those the model uses
Whitespace == {" ", "\t", "\n"}

\* line boundaries of str.splitlines(), among the characters the model uses
LineBreaks == {"\n"}

\* the literals of Parser.parse
KwGame == <<"g", "a", "m", "e">>
KwObject == <<"o", "b", "j", "e", "c", "t", " ">>
KwImport == <<"i", "m", "p", "o", "r", "t", " ">>
Quote == {"\""}

\* s[from:] of Python, 1-based
Drop(s, n) == SubSeq(s, n + 1, Len(s))

\* needle in s
Contains(s, needle) ==
    \E i \in 0..(Len(s) - Len(needle)) : SubSeq(s, i + 1, i + Len(needle)) = needle

\* variant: a substring search instead of a prefix match
startswith_anywhere(s, prefix) == Contains(s, prefix)

\* s.startswith(prefix)
startswith(s, prefix) ==
    /\ Len(prefix) <= Len(s)
    /\ SubSeq(s, 1, Len(prefix)) = prefix

\* s.lstrip(chars): drop leading characters while they are in chars
RECURSIVE lstrip(_, _)
lstrip(s, chars) ==
    IF s # <<>> /\ Head(s) \in chars THEN lstrip(Tail(s), chars) ELSE s

\* s.rstrip(chars): drop trailing characters while they are in chars
RECURSIVE rstrip(_, _)
rstrip(s, chars) ==
    IF s # <<>> /\ s[Len(s)] \in chars
    THEN rstrip(SubSeq(s, 1, Len(s) - 1), chars)
    ELSE s

\* s.strip(chars); s.strip() is strip(s, Whitespace)
strip(s, chars) == rstrip(lstrip(s, chars), chars)

\* length of the longest prefix of s with no character in stops
RECURSIVE span(_, _)
span(s, stops) ==
    IF s = <<>> \/ Head(s) \in stops THEN 0 ELSE 1 + span(Tail(s), stops)

\* s.splitlines(): a final line break opens no further line
RECURSIVE splitlines(_)
splitlines(s) ==
    IF s = <<>> THEN <<>>
    ELSE LET n == span(s, LineBreaks)
         IN  <<SubSeq(s, 1, n)>> \o splitlines(Drop(s, n + 1))

\* s.split(): the maximal runs of non-whitespace characters
RECURSIVE split(_)
split(s) ==
    LET t == lstrip(s, Whitespace)
    IN  IF t = <<>> THEN <<>>
        ELSE LET n == span(t, Whitespace)
             IN  <<SubSeq(t, 1, n)>> \o split(Drop(t, n))

(***************************************************************************)
(* Parser.parse.  An outcome is [exc, value]: exc is "none" when the call  *)
(* returns value, else the name of the exception it raises.                *)
(***************************************************************************)

Returns(v) == [exc |-> "none", value |-> Some(v)]
Raises(e) == [exc |-> e, value |-> None]

\* the dict appended for an object statement (line 40)
SceneObject(name) ==
    [name |-> name, position |-> <<0, 0, 0>>, rotation |-> <<0, 0, 0>>,
     scale |-> 1]

\* the dict created at line 35
EmptyAst ==
    [objects |-> <<>>, ui |-> <<>>, physics |-> <<>>, audio |-> <<>>,
     assets |-> <<>>]

\* line 36: the stripped lines that are not blank
RECURSIVE stripped(_)
stripped(ls) ==
    IF ls = <<>> THEN <<>>
    ELSE LET l == strip(Head(ls), Whitespace)
         IN  (IF l # <<>> THEN <<l>> ELSE <<>>) \o stripped(Tail(ls))

\* variant: the blank lines are dropped but the kept lines are not stripped
Lines_unstripped(code_text) ==
    SelectSeq(splitlines(code_text), LAMBDA l : strip(l, Whitespace) # <<>>)

Lines(code_text) == stripped(splitlines(code_text))

\* variant: the name is taken from the first token instead of the second
ObjectStmt_first(line, ast) ==
    IF ~startswith(line, KwObject) THEN Returns(ast)
    ELSE Returns([ast EXCEPT !.objects =
                      Append(@, SceneObject(split(line)[1]))])

\* lines 38-40 for one line: the outcome on ast
ObjectStmt(line, ast) ==
    IF ~startswith(line, KwObject) THEN Returns(ast)
    ELSE IF Len(split(line)) < 2 THEN Raises("IndexError")
    ELSE Returns([ast EXCEPT !.objects =
                      Append(@, SceneObject(split(line)[2]))])

\* variant: the quotes are left on the reference
ImportStmt_quoted(line, ast) ==
    IF ~startswith(line, KwImport) THEN Returns(ast)
    ELSE IF Len(split(line)) < 2 THEN Raises("IndexError")
    ELSE Returns([ast EXCEPT !.assets = Append(@, split(line)[2])])

\* lines 41-43 for one line: the outcome on ast
ImportStmt(line, ast) ==
    IF ~startswith(line, KwImport) THEN Returns(ast)
    ELSE IF Len(split(line)) < 2 THEN Raises("IndexError")
    ELSE Returns([ast EXCEPT !.assets =
                      Append(@, strip(split(line)[2], Quote))])

\* lines 37-44: the loop over the lines, then the return
RECURSIVE ParseLines(_, _)
ParseLines(lines, ast) ==
    IF lines = <<>> THEN Returns(ast)
    ELSE LET o == ObjectStmt(Head(lines), ast)
         IN  IF o.exc # "none" THEN o
             ELSE LET i == ImportStmt(Head(lines), o.value[1])
                  IN  IF i.exc # "none" THEN i
                      ELSE ParseLines(Tail(lines), i.value[1])

\* Parser.parse(code_text)
parse(code_text) ==
    IF ~Contains(code_text, KwGame) THEN Raises("SyntaxError")
    ELSE ParseLines(Lines(code_text), EmptyAst)

(***************************************************************************)
(* Source texts.                                                           *)
(***************************************************************************)

\* 'game Demo { object Player {} object Enemy {} import "x.obj" }'
ScenarioText ==
    <<"g", "a", "m", "e", " ", "D", "e", "m", "o", " ", "{", " ", "o", "b",
      "j", "e", "c", "t", " ", "P", "l", "a", "y", "e", "r", " ", "{", "}",
      " ", "o", "b", "j", "e", "c", "t", " ", "E", "n", "e", "m", "y", " ",
      "{", "}", " ", "i", "m", "p", "o", "r", "t", " ", "\"", "x", ".",
      "o", "b", "j", "\"", " ", "}">>

\* 'game Demo {\n  object Player {}\n  object Enemy {}\n  import "x.obj"\n}'
ScenarioByLine ==
    <<"g", "a", "m", "e", " ", "D", "e", "m", "o", " ", "{", "\n", " ",
      " ", "o", "b", "j", "e", "c", "t", " ", "P", "l", "a", "y", "e", "r",
      " ", "{", "}", "\n", " ", " ", "o", "b", "j", "e", "c", "t", " ",
      "E", "n", "e", "m", "y", " ", "{", "}", "\n", " ", " ", "i", "m",
      "p", "o", "r", "t", " ", "\"", "x", ".", "o", "b", "j", "\"", "\n",
      "}">>

\* 'object Enemy {}\nimport "x.obj"'
NoKeywordText ==
    <<"o", "b", "j", "e", "c", "t", " ", "E", "n", "e", "m", "y", " ", "{",
      "}", "\n", "i", "m", "p", "o", "r", "t", " ", "\"", "x", ".", "o",
      "b", "j", "\"">>

\* '\ngame G {\n\timport "a"\n\timport "a"\n\n\tobject Player { position=(0,10,0) }\n\tobject ENEMY {}\n\tobject enemy\n\tobject enemy2\n}\n'
DemoText ==
    <<"\n", "g", "a", "m", "e", " ", "G", " ", "{", "\n", "\t", "i", "m",
      "p", "o", "r", "t", " ", "\"", "a", "\"", "\n", "\t", "i", "m", "p",
      "o", "r", "t", " ", "\"", "a", "\"", "\n", "\n", "\t", "o", "b", "j",
      "e", "c", "t", " ", "P", "l", "a", "y", "e", "r", " ", "{", " ", "p",
      "o", "s", "i", "t", "i", "o", "n", "=", "(", "0", ",", "1", "0", ",",
      "0", ")", " ", "}", "\n", "\t", "o", "b", "j", "e", "c", "t", " ",
      "E", "N", "E", "M", "Y", " ", "{", "}", "\n", "\t", "o", "b", "j",
      "e", "c", "t", " ", "e", "n", "e", "m", "y", "\n", "\t", "o", "b",
      "j", "e", "c", "t", " ", "e", "n", "e", "m", "y", "2", "\n", "}", "\n">>

\* 'game\nobject \nimport\t\n'
BareText ==
    <<"g", "a", "m", "e", "\n", "o", "b", "j", "e", "c", "t", " ", "\n",
      "i", "m", "p", "o", "r", "t", "\t", "\n">>


\* 'game\nimport "a.obj"\nimport "b.obj"'
ImportsText ==
    <<"g", "a", "m", "e", "\n", "i", "m", "p", "o", "r", "t", " ", "\"", "a",
      ".", "o", "b", "j", "\"", "\n", "i", "m", "p", "o", "r", "t", " ", "\"",
      "b", ".", "o", "b", "j", "\"">>

\* the texts Parser.parse is applied to as a whole
SourceTexts ==
    {ScenarioText, ScenarioByLine, NoKeywordText, DemoText, BareText,
     ImportsText}

\* the texts the facade is called with
LoadTexts == {ScenarioByLine, NoKeywordText, DemoText}

\* the fragments a text of the parser runs is composed of
Fragments ==
    {KwGame, KwObject, KwImport, <<"\n">>, <<" ">>, <<"\"">>, <<"E">>}

\* most fragments in a composed text
MaxChunks == 6

(***************************************************************************)
(* AssetManager: the class-level dict maps a reference to its handle.      *)
(***************************************************************************)

\* the placeholder cube of line 56
Handle == "Box"

\* AssetManager.load_assets(asset_list) on the dict reg, every constructor
\* call of line 56 returning a handle
RECURSIVE load_assets(_, _)
load_assets(reg, asset_list) ==
    IF asset_list = <<>> THEN reg
    ELSE load_assets(
             [k \in DOMAIN reg \cup {Head(asset_list)} |-> Handle],
             Tail(asset_list))

\* AssetManager.cleanup() on the dict reg
cleanup(reg) == [k \in {} |-> Handle]

(***************************************************************************)
(* Names the program takes from pyglet.  pyglet.shapes.Box(width=1,        *)
(* height=1, depth=1) of line 56 returns a handle where the constructor    *)
(* has these keywords, raises TypeError where it has not and               *)
(* AttributeError where pyglet.shapes has no Box; glutWireCube of line 87  *)
(* is defined nowhere in the program and is a callable only where          *)
(* 'from pyglet.gl import *' brings it in, a NameError elsewhere.          *)
(* One build gives one answer; it is known from the first use on.          *)
(***************************************************************************)

Untried == "untried"

\* the ways the constructor calls of load_assets(asset_list) can end
BoxTried(b, asset_list) ==
    IF asset_list = <<>> THEN {"ok"}
    ELSE IF b.Box = Untried THEN {"ok", "TypeError", "AttributeError"}
    ELSE {b.Box}

\* the build, known after load_assets(asset_list)
BoxFound(b, asset_list, box) ==
    IF asset_list = <<>> THEN b ELSE [b EXCEPT !.Box = box]

\* the ways the glutWireCube calls of Renderer.render(objects) can end
CubeTried(b, objects) ==
    IF objects = <<>> THEN {"ok"}
    ELSE IF b.glutWireCube = Untried THEN {"ok", "NameError"}
    ELSE {b.glutWireCube}

\* the build, known after Renderer.render(objects)
CubeFound(b, objects, cube) ==
    IF objects = <<>> THEN b ELSE [b EXCEPT !.glutWireCube = cube]

\* AssetManager.load_assets(asset_list) on the dict reg, the constructor
\* ending as box: the first call that raises ends the load
LoadAssets(reg, asset_list, box) ==
    IF asset_list # <<>> /\ box # "ok"
    THEN [exc |-> box, assets |-> reg]
    ELSE [exc |-> "none", assets |-> load_assets(reg, asset_list)]

(***************************************************************************)
(* Subsystem updates over the shared object list.                          *)
(***************************************************************************)

\* 9.8 and 1.0 in tenths
Gravity == 98
Drift == 10

\* max(y, 0) of line 109
max(a, b) == IF b > a THEN b ELSE a

\* variant: no floor clamp
PhysicsUpdate_unclamped(objects, dt) ==
    [i \in DOMAIN objects |->
        [objects[i] EXCEPT !.position[2] = @ - Gravity * dt]]

\* variant: gravity is applied to the third coordinate
PhysicsUpdate_wrong_axis(objects, dt) ==
    [i \in DOMAIN objects |->
        [objects[i] EXCEPT !.position[3] = max(@ - Gravity * dt, 0)]]

\* Physics.update(objects, delta_time)
PhysicsUpdate(objects, dt) ==
    [i \in DOMAIN objects |->
        [objects[i] EXCEPT !.position[2] = max(@ - Gravity * dt, 0)]]

\* str.lower() on the letters the texts use
lower(s) ==
    [i \in DOMAIN s |->
        CASE s[i] = "E" -> "e"
          [] s[i] = "N" -> "n"
          [] s[i] = "M" -> "m"
          [] s[i] = "Y" -> "y"
          [] s[i] = "P" -> "p"
          [] s[i] = "D" -> "d"
          [] s[i] = "G" -> "g"
          [] OTHER -> s[i]]

EnemyName == <<"e", "n", "e", "m", "y">>

\* variant: the name is compared without lower()
AIUpdate_case_sensitive(objects, dt) ==
    [i \in DOMAIN objects |->
        IF objects[i].name = EnemyName
        THEN [objects[i] EXCEPT !.position[1] = @ - Drift * dt]
        ELSE objects[i]]

\* AI.update(objects, delta_time)
AIUpdate(objects, dt) ==
    [i \in DOMAIN objects |->
        IF lower(objects[i].name) = EnemyName
        THEN [objects[i] EXCEPT !.position[1] = @ - Drift * dt]
        ELSE objects[i]]

(***************************************************************************)
(* The facade and the frame loop.                                          *)
(***************************************************************************)

Runtimes == {1, 2}

\* facade calls in a behaviour, ticks in a run, clock steps per reading
MaxCalls == 3
MaxTicks == 2
MaxAhead == 1
MaxBack == 1

\* time.time() is the wall clock: between two readings it may stand still
\* and may be set back.  Readings are counted from the reading of line 162,
\* and the locals of GameLoop.start are 0 outside a run.
Deltas == (0 - MaxBack)..MaxAhead

\* the body of update(), lines 201-205
UpdateOrder ==
    <<"Input.update", "Physics.update", "AI.update", "Renderer.render",
      "Audio.update">>

\* variant: the asset registry is cleared before the subsystems shut down
TeardownOrder_cleanup_first ==
    <<"AssetManager.cleanup", "Renderer.shutdown", "Physics.shutdown",
      "Audio.shutdown">>

\* lines 208-211
TeardownOrder ==
    <<"Renderer.shutdown", "Physics.shutdown", "Audio.shutdown",
      "AssetManager.cleanup">>

\* NexRuntime.run(), lines 191-194
InitOrder == <<"Renderer.init", "Physics.init", "AI.init", "Audio.init">>

\* the positions of the thread inside the try block of GameLoop.start
InLoop == {"top", "update", "sleep"}

\* the positions of the thread inside run() and outside the try block:
\* line 162 (with lines 200-207 before it), line 171, lines 208-211
OutsideTry == {"start", "except", "teardown"}

Done(call, r, arg, exc, value) ==
    [call |-> call, rt |-> r, arg |-> arg, exc |-> exc, value |-> value]

\* the last two results of load_code on a runtime
Logged(log, v) == IF Len(log) < 2 THEN Append(log, v) ELSE <<log[2], v>>

Init ==
    /\ text = <<>>
    /\ chunks = 0
    /\ result = None
    /\ game_ir = [r \in Runtimes |-> None]
    /\ assets = [k \in {} |-> Handle]
    /\ build = [Box |-> Untried, glutWireCube |-> Untried]
    /\ pc = "idle"
    /\ cur = 1
    /\ last_time = 0
    /\ delta_time = 0
    /\ tick_log = <<>>
    /\ ticks = 0
    /\ teardown = <<>>
    /\ interrupted = FALSE
    /\ ret = Done("none", 1, None, "none", "None")
    /\ load_log = [r \in Runtimes |-> <<>>]
    /\ loaded = [r \in Runtimes |-> FALSE]
    /\ runs = [r \in Runtimes |-> 0]
    /\ dt_sum = 0
    /\ dt_neg = FALSE
    /\ inits = <<>>
    /\ calls = 0

\* variant: a rejected text also drops the IR loaded before
Rejected_reset(r) ==
    /\ game_ir' = [game_ir EXCEPT ![r] = None]
    /\ UNCHANGED assets

\* load_code, lines 186-188: the except clause assigns nothing
Rejected(r) == UNCHANGED <<game_ir, assets>>

\* what load_code(code_text) does with the outcome o of Parser.parse:
\* lines 181-188.  game_ir is assigned at line 182, before load_assets is
\* called, and only SyntaxError is caught.
LoadOutcome(r, code_text, o) ==
    IF o.exc = "none"
    THEN /\ game_ir' = [game_ir EXCEPT ![r] = o.value]
         /\ \E box \in BoxTried(build, o.value[1].assets) :
               LET la == LoadAssets(assets, o.value[1].assets, box)
               IN  /\ build' = BoxFound(build, o.value[1].assets, box)
                   /\ assets' = la.assets
                   /\ IF la.exc = "none"
                      THEN /\ ret' = Done("load_code", r, code_text, "none",
                                          "True")
                           /\ load_log' =
                                 [load_log EXCEPT ![r] = Logged(@, "True")]
                           /\ loaded' = [loaded EXCEPT ![r] = TRUE]
                           /\ runs' = [runs EXCEPT ![r] = 0]
                      ELSE /\ ret' = Done("load_code", r, code_text, la.exc,
                                          "None")
                           /\ load_log' =
                                 [load_log EXCEPT ![r] = Logged(@, "raised")]
                           /\ UNCHANGED <<loaded, runs>>
    ELSE IF o.exc = "SyntaxError"
    THEN /\ ret' = Done("load_code", r, code_text, "none", "False")
         /\ load_log' = [load_log EXCEPT ![r] = Logged(@, "False")]
         /\ Rejected(r)
         /\ UNCHANGED <<build, loaded, runs>>
    ELSE /\ ret' = Done("load_code", r, code_text, o.exc, "None")
         /\ load_log' = [load_log EXCEPT ![r] = Logged(@, "raised")]
         /\ UNCHANGED <<game_ir, assets, build, loaded, runs>>

\* NexRuntime.load_code(code_text)
LoadCode(r, code_text) ==
    /\ pc = "idle"
    /\ calls < MaxCalls
    /\ calls' = calls + 1
    /\ LoadOutcome(r, code_text, parse(code_text))
    /\ UNCHANGED <<pc, cur, last_time, delta_time, tick_log, ticks,
                   teardown, interrupted, dt_sum, dt_neg, inits>>
    /\ UNCHANGED parserVars

\* NexRuntime.run(), lines 191-198: the inits, then the slices of the IR
RunBegin(r) ==
    /\ pc = "idle"
    /\ calls < MaxCalls
    /\ calls' = calls + 1
    /\ cur' = r
    /\ tick_log' = <<>>
    /\ ticks' = 0
    /\ teardown' = <<>>
    /\ interrupted' = FALSE
    /\ dt_sum' = 0
    /\ dt_neg' = FALSE
    /\ runs' = [runs EXCEPT ![r] = @ + 1]
    /\ inits' = InitOrder
    /\ IF game_ir[r] = None
       THEN /\ ret' = Done("run", r, None, "AttributeError", "None")
            /\ pc' = "idle"
       ELSE /\ ret' = Done("run", r, None, "running", "None")
            /\ pc' = "start"
    /\ UNCHANGED <<game_ir, assets, build, last_time, delta_time, load_log,
                   loaded>>
    /\ UNCHANGED parserVars

\* GameLoop.start, line 162
LoopStart ==
    /\ pc = "start"
    /\ last_time' = 0
    /\ pc' = "top"
    /\ UNCHANGED <<game_ir, assets, build, cur, delta_time, tick_log, ticks,
                   teardown, interrupted, ret, load_log, loaded, runs, dt_sum,
                   dt_neg, inits, calls>>
    /\ UNCHANGED parserVars

\* variant: last_time keeps the reading of line 162
LoopTop_stale ==
    /\ pc = "top"
    /\ ticks < MaxTicks
    /\ \E current_time \in {last_time + d : d \in Deltas} :
          /\ delta_time' = current_time - last_time
          /\ last_time' = last_time
    /\ dt_sum' = dt_sum + delta_time'
    /\ dt_neg' = (dt_neg \/ delta_time' < 0)
    /\ ticks' = ticks + 1
    /\ tick_log' = <<>>
    /\ pc' = "update"
    /\ UNCHANGED <<game_ir, assets, build, cur, teardown, interrupted, ret,
                   load_log, loaded, runs, inits, calls>>
    /\ UNCHANGED parserVars

\* GameLoop.start, lines 165-167, and the call of update_func at line 168
LoopTop ==
    /\ pc = "top"
    /\ ticks < MaxTicks
    /\ \E current_time \in {last_time + d : d \in Deltas} :
          /\ delta_time' = current_time - last_time
          /\ last_time' = current_time
    /\ dt_sum' = dt_sum + delta_time'
    /\ dt_neg' = (dt_neg \/ delta_time' < 0)
    /\ ticks' = ticks + 1
    /\ tick_log' = <<>>
    /\ pc' = "update"
    /\ UNCHANGED <<game_ir, assets, build, cur, teardown, interrupted, ret,
                   load_log, loaded, runs, inits, calls>>
    /\ UNCHANGED parserVars

\* the statement of update() the thread is at
NextStep == UpdateOrder[Len(tick_log) + 1]

\* one statement of update() completes
Stepped(s) ==
    /\ pc = "update"
    /\ NextStep = s
    /\ tick_log' = Append(tick_log, s)
    /\ pc' = IF Len(tick_log') = Len(UpdateOrder) THEN "sleep" ELSE "update"
    /\ UNCHANGED <<assets, cur, last_time, delta_time, ticks, teardown,
                   interrupted, ret, load_log, loaded, runs, dt_sum, dt_neg,
                   inits, calls>>
    /\ UNCHANGED parserVars

\* an exception leaves run(): nothing in run() catches it, the steps that
\* remain are not executed
Raised(exc) ==
    /\ ret' = Done("run", cur, None, exc, "None")
    /\ pc' = "idle"
    /\ last_time' = 0
    /\ delta_time' = 0
    /\ dt_sum' = 0
    /\ dt_neg' = FALSE
    /\ UNCHANGED <<cur, tick_log, ticks, teardown, load_log, loaded, runs,
                   inits, calls>>
    /\ UNCHANGED parserVars

\* objects is the list inside game_ir (line 196), mutated in place
WithObjects(objects) ==
    [game_ir EXCEPT ![cur] = Some([@[1] EXCEPT !.objects = objects])]

\* line 201
InputStep == Stepped("Input.update") /\ UNCHANGED <<game_ir, build>>

\* line 202
PhysicsStep ==
    /\ Stepped("Physics.update")
    /\ game_ir' =
          WithObjects(PhysicsUpdate(game_ir[cur][1].objects, delta_time))
    /\ UNCHANGED build

\* line 203
AIStep ==
    /\ Stepped("AI.update")
    /\ game_ir' = WithObjects(AIUpdate(game_ir[cur][1].objects, delta_time))
    /\ UNCHANGED build

\* line 204: Renderer.render calls glutWireCube for every object (line 87);
\* where the name is not defined the NameError leaves update(), the loop
\* (which catches KeyboardInterrupt only) and run()
RenderStep ==
    /\ pc = "update"
    /\ NextStep = "Renderer.render"
    /\ UNCHANGED game_ir
    /\ \E cube \in CubeTried(build, game_ir[cur][1].objects) :
          /\ build' = CubeFound(build, game_ir[cur][1].objects, cube)
          /\ IF cube = "ok"
             THEN Stepped("Renderer.render")
             ELSE Raised(cube) /\ UNCHANGED <<assets, interrupted>>

\* line 205
AudioStep == Stepped("Audio.update") /\ UNCHANGED <<game_ir, build>>

\* GameLoop.start, line 169
Sleep ==
    /\ pc = "sleep"
    /\ pc' = "top"
    /\ UNCHANGED <<game_ir, assets, build, cur, last_time, delta_time,
                   tick_log, ticks, teardown, interrupted, ret, load_log,
                   loaded, runs, dt_sum, dt_neg, inits, calls>>
    /\ UNCHANGED parserVars

\* the object lists an interrupt can leave behind when it arrives inside
\* the loop of a subsystem update: the first k objects are updated
Partial(old, new) ==
    {[i \in DOMAIN old |-> IF i <= k THEN new[i] ELSE old[i]] :
        k \in 0..Len(old)}

\* the object lists an interrupt can leave behind when it arrives at the
\* position the thread is at
Interrupted(objects) ==
    IF pc = "update" /\ NextStep = "Physics.update"
    THEN Partial(objects, PhysicsUpdate(objects, delta_time))
    ELSE IF pc = "update" /\ NextStep = "AI.update"
    THEN Partial(objects, AIUpdate(objects, delta_time))
    ELSE {objects}

\* the external interrupt arrives while the thread is inside the try block,
\* between any two instructions: control passes to the except clause of
\* line 170, the statement of update() under way is left unfinished
InterruptInLoop ==
    /\ pc \in InLoop
    /\ interrupted' = TRUE
    /\ pc' = "except"
    /\ \E objects \in Interrupted(game_ir[cur][1].objects) :
          game_ir' = WithObjects(objects)
    /\ UNCHANGED <<assets, build, cur, last_time, delta_time, tick_log,
                   ticks, teardown, ret, load_log, loaded, runs, dt_sum,
                   dt_neg, inits, calls>>
    /\ UNCHANGED parserVars

\* the statement of lines 208-211 the thread is at
NextTeardown == TeardownOrder[Len(teardown) + 1]

\* the external interrupt arrives inside run() and outside the try block:
\* KeyboardInterrupt leaves run().  Inside AssetManager.cleanup it arrives
\* before or after the registry is cleared.
InterruptOutsideTry ==
    /\ pc \in OutsideTry
    /\ Raised("KeyboardInterrupt")
    /\ assets' \in
          IF pc = "teardown" /\ NextTeardown = "AssetManager.cleanup"
          THEN {assets, cleanup(assets)} ELSE {assets}
    /\ UNCHANGED <<game_ir, build, interrupted>>

\* the lists of the first k elements of a list
Prefixes(s) == {SubSeq(s, 1, k) : k \in 0..Len(s)}

\* the external interrupt arrives in lines 191-198 of run(), after any
\* number of the inits
InterruptInInits(r) ==
    /\ pc = "idle"
    /\ calls < MaxCalls
    /\ calls' = calls + 1
    /\ cur' = r
    /\ tick_log' = <<>>
    /\ ticks' = 0
    /\ teardown' = <<>>
    /\ interrupted' = FALSE
    /\ dt_sum' = 0
    /\ dt_neg' = FALSE
    /\ runs' = [runs EXCEPT ![r] = @ + 1]
    /\ inits' \in Prefixes(InitOrder)
    /\ ret' = Done("run", r, None, "KeyboardInterrupt", "None")
    /\ UNCHANGED <<game_ir, assets, build, pc, last_time, delta_time,
                   load_log, loaded>>
    /\ UNCHANGED parserVars

\* the external interrupt arrives inside load_code: before game_ir is
\* assigned at line 182, or after it and after any number of the handles
\* of line 56 were stored
InterruptInLoad(r, code_text) ==
    /\ pc = "idle"
    /\ calls < MaxCalls
    /\ calls' = calls + 1
    /\ ret' = Done("load_code", r, code_text, "KeyboardInterrupt", "None")
    /\ load_log' = [load_log EXCEPT ![r] = Logged(@, "interrupted")]
    /\ \/ UNCHANGED <<game_ir, assets, build>>
       \/ \E o \in {parse(code_text)} :
             /\ o.exc = "none"
             /\ game_ir' = [game_ir EXCEPT ![r] = o.value]
             /\ \E stored \in Prefixes(o.value[1].assets) :
                   /\ "ok" \in BoxTried(build, stored)
                   /\ build' = BoxFound(build, stored, "ok")
                   /\ assets' = load_assets(assets, stored)
    /\ UNCHANGED <<pc, cur, last_time, delta_time, tick_log, ticks,
                   teardown, interrupted, loaded, runs, dt_sum, dt_neg,
                   inits>>
    /\ UNCHANGED parserVars

\* KeyboardInterrupt is raised wherever the thread is when the interrupt
\* arrives
KeyboardInterrupt ==
    \/ InterruptInLoop
    \/ InterruptOutsideTry
    \/ \E r \in Runtimes : InterruptInInits(r)
    \/ \E r \in Runtimes, t \in LoadTexts : InterruptInLoad(r, t)

\* GameLoop.start, line 171, and the return to run()
LoopStopped ==
    /\ pc = "except"
    /\ pc' = "teardown"
    /\ UNCHANGED <<game_ir, assets, build, cur, last_time, delta_time,
                   tick_log, ticks, teardown, interrupted, ret, load_log,
                   loaded, runs, dt_sum, dt_neg, inits, calls>>
    /\ UNCHANGED parserVars

\* one of Renderer.shutdown, Physics.shutdown, Audio.shutdown completes
Shutdown(s) ==
    /\ pc = "teardown"
    /\ NextTeardown = s
    /\ s # "AssetManager.cleanup"
    /\ teardown' = Append(teardown, s)
    /\ UNCHANGED <<game_ir, assets, build, pc, cur, last_time, delta_time,
                   tick_log, ticks, interrupted, ret, load_log, loaded, runs,
                   dt_sum, dt_neg, inits, calls>>
    /\ UNCHANGED parserVars

\* line 208
RendererShutdown == Shutdown("Renderer.shutdown")

\* line 209
PhysicsShutdown == Shutdown("Physics.shutdown")

\* line 210
AudioShutdown == Shutdown("Audio.shutdown")

\* line 211, and the return of run()
AssetCleanup ==
    /\ pc = "teardown"
    /\ NextTeardown = "AssetManager.cleanup"
    /\ teardown' = Append(teardown, "AssetManager.cleanup")
    /\ assets' = cleanup(assets)
    /\ ret' = Done("run", cur, None, "none", "None")
    /\ pc' = "idle"
    /\ last_time' = 0
    /\ delta_time' = 0
    /\ dt_sum' = 0
    /\ dt_neg' = FALSE
    /\ UNCHANGED <<game_ir, build, cur, tick_log, ticks, interrupted,
                   load_log, loaded, runs, inits, calls>>
    /\ UNCHANGED parserVars

\* Renderer.shutdown raises (the window's close() fails, line 93): nothing
\* in run() catches it
RendererShutdownFails ==
    /\ pc = "teardown"
    /\ NextTeardown = "Renderer.shutdown"
    /\ Raised("Exception")
    /\ UNCHANGED <<game_ir, assets, build, interrupted>>

Next ==
    \/ \E r \in Runtimes, t \in LoadTexts : LoadCode(r, t)
    \/ \E r \in Runtimes : RunBegin(r)
    \/ LoopStart
    \/ LoopTop
    \/ InputStep
    \/ PhysicsStep
    \/ AIStep
    \/ RenderStep
    \/ AudioStep
    \/ Sleep
    \/ KeyboardInterrupt
    \/ LoopStopped
    \/ RendererShutdown
    \/ PhysicsShutdown
    \/ AudioShutdown
    \/ AssetCleanup

\* the program: pyglet's window and GL calls succeed, its shapes.Box and
\* the name glutWireCube are what the installed build makes them
Spec == Init /\ [][Next]_vars

\* the program when the renderer's shutdown may fail
SpecFault == Init /\ [][Next \/ RendererShutdownFails]_vars

(***************************************************************************)
(* Parser runs: a text is composed of fragments, or is one of the source   *)
(* texts, and Parser.parse is applied to it.                               *)
(***************************************************************************)

TypeFragment(f) ==
    /\ result = None
    /\ chunks < MaxChunks
    /\ text' = text \o f
    /\ chunks' = chunks + 1
    /\ UNCHANGED result
    /\ UNCHANGED runtimeVars

Paste(t) ==
    /\ result = None
    /\ chunks = 0
    /\ text' = t
    /\ chunks' = MaxChunks
    /\ UNCHANGED result
    /\ UNCHANGED runtimeVars

Parse ==
    /\ result = None
    /\ result' = Some(parse(text))
    /\ UNCHANGED <<text, chunks>>
    /\ UNCHANGED runtimeVars

NextParse ==
    \/ \E f \in Fragments : TypeFragment(f)
    \/ \E t \in SourceTexts : Paste(t)
    \/ Parse

SpecParse == Init /\ [][NextParse]_vars

(***************************************************************************)
(* Registry runs: AssetManager.load_assets and AssetManager.cleanup are    *)
(* called directly, with any list of references.                           *)
(***************************************************************************)

AssetRefs == {<<"a">>, <<"b">>, <<"c">>, <<"x", ".", "o", "b", "j">>}

\* longest list of references in one load_assets call
MaxRefs == 2

AssetLists == UNION {[1..n -> AssetRefs] : n \in 0..MaxRefs}

\* AssetManager.load_assets(asset_list)
AssetsLoad(asset_list) ==
    /\ \E box \in BoxTried(build, asset_list) :
          LET la == LoadAssets(assets, asset_list, box)
          IN  /\ build' = BoxFound(build, asset_list, box)
              /\ assets' = la.assets
              /\ ret' = Done("load_assets", 1, asset_list, la.exc, "None")
    /\ UNCHANGED <<game_ir, pc, cur, last_time, delta_time, tick_log, ticks,
                   teardown, interrupted, load_log, loaded, runs, dt_sum,
                   dt_neg, inits, calls>>
    /\ UNCHANGED parserVars

\* AssetManager.cleanup()
AssetsCleanup ==
    /\ assets' = cleanup(assets)
    /\ ret' = Done("cleanup", 1, None, "none", "None")
    /\ UNCHANGED <<game_ir, build, pc, cur, last_time, delta_time, tick_log,
                   ticks, teardown, interrupted, load_log, loaded, runs,
                   dt_sum, dt_neg, inits, calls>>
    /\ UNCHANGED parserVars

NextAssets ==
    \/ \E l \in AssetLists : AssetsLoad(l)
    \/ AssetsCleanup

SpecAssets == Init /\ [][NextAssets]_vars

(***************************************************************************)
(* Properties of Parser.parse, stated on the characters of the text.       *)
(***************************************************************************)

IsSpace(c) == c = " " \/ c = "\t" \/ c = "\n"

ObjectWord == <<"o", "b", "j", "e", "c", "t">>
ImportWord == <<"i", "m", "p", "o", "r", "t">>

\* the text holds the letters g, a, m, e in a row
HasGame(t) ==
    \E i \in 1..(Len(t) - 3) :
        t[i] = "g" /\ t[i + 1] = "a" /\ t[i + 2] = "m" /\ t[i + 3] = "e"

\* at position j the six-letter word kw opens a statement: only blanks
\* precede it on its line, a space follows it, and the line goes on with a
\* token
StatementAt(t, j, kw) ==
    /\ j + 6 <= Len(t)
    /\ \A k \in 0..5 : t[j + k] = kw[k + 1]
    /\ t[j + 6] = " "
    /\ \A k \in 1..(j - 1) :
          IsSpace(t[k]) \/ \E n \in (k + 1)..(j - 1) : t[n] = "\n"
    /\ \E k \in (j + 7)..Len(t) :
          ~IsSpace(t[k]) /\ \A n \in (j + 7)..(k - 1) : t[n] # "\n"

Statements(t, kw) == {j \in 1..Len(t) : StatementAt(t, j, kw)}

\* the i-th smallest element of a set of numbers
Nth(S, i) == CHOOSE x \in S : Cardinality({y \in S : y < x}) = i - 1

\* the token that follows the statement word at position j
SecondToken(t, j) ==
    LET b == CHOOSE k \in (j + 7)..Len(t) :
                 ~IsSpace(t[k]) /\ \A n \in (j + 7)..(k - 1) : IsSpace(t[n])
        e == CHOOSE k \in b..Len(t) :
                 /\ \A n \in b..k : ~IsSpace(t[n])
                 /\ k = Len(t) \/ IsSpace(t[k + 1])
    IN  SubSeq(t, b, e)

\* a token without the double quotes around it
Unquoted(tok) ==
    LET keep == {i \in 1..Len(tok) : tok[i] # "\""}
    IN  IF keep = {} THEN <<>>
        ELSE SubSeq(tok, CHOOSE i \in keep : \A k \in keep : i <= k,
                         CHOOSE i \in keep : \A k \in keep : k <= i)

Parsed == result # None
Ast == result[1].value[1]

\* C1: Parser.parse raises SyntaxError for every text without the substring
\* 'game', and returns an IR without raising for every text with it,
\* whatever its 'object ' and 'import ' lines look like.
C1_KeywordGate ==
    Parsed =>
        /\ HasGame(text) => result[1].exc = "none"
        /\ ~HasGame(text) => result[1].exc = "SyntaxError"

\* a text with 'game', an object statement and an import statement was parsed
C1_Witness ==
    /\ Parsed
    /\ result[1].exc = "none"
    /\ Ast.objects # <<>>
    /\ Ast.assets # <<>>

\* C7: for a text with 'game' and N lines that, trimmed, start with
\* 'object <Name>', the IR has exactly N objects, in source order, the i-th
\* named after the i-th such line, at position (0,0,0), rotation (0,0,0),
\* scale 1.
C7_ObjectExtraction ==
    (Parsed /\ HasGame(text)) =>
        LET P == Statements(text, ObjectWord)
        IN  /\ result[1].exc = "none"
            /\ Len(Ast.objects) = Cardinality(P)
            /\ \A i \in 1..Cardinality(P) :
                  Ast.objects[i] =
                      [name |-> SecondToken(text, Nth(P, i)),
                       position |-> <<0, 0, 0>>,
                       rotation |-> <<0, 0, 0>>,
                       scale |-> 1]

\* two object statements with the same name were parsed
C7_Witness ==
    /\ Parsed
    /\ result[1].exc = "none"
    /\ Len(Ast.objects) >= 2
    /\ Ast.objects[1].name = Ast.objects[2].name

Player == <<"P", "l", "a", "y", "e", "r">>
Enemy == <<"E", "n", "e", "m", "y">>
XObj == <<"x", ".", "o", "b", "j">>

\* the IR section 8 of the specification expects for its scenario
IsScenarioIR(ir) ==
    /\ Len(ir.objects) = 2
    /\ ir.objects[1].name = Player
    /\ ir.objects[2].name = Enemy
    /\ \A i \in 1..2 :
          ir.objects[i].position = <<0, 0, 0>> /\ ir.objects[i].scale = 1
    /\ ir.assets = <<XObj>>

\* C8 as stated: parsing the one-line scenario text yields objects
\* [Player, Enemy], each at (0,0,0) with scale 1, and assets ["x.obj"].
C8_ScenarioAsStated ==
    (Parsed /\ text = ScenarioText) =>
        result[1].exc = "none" /\ IsScenarioIR(Ast)

\* C8 as amended: the one-line scenario text yields no objects and no
\* assets; the scenario written with one statement per line yields objects
\* [Player, Enemy], each at (0,0,0) with scale 1, and assets ["x.obj"].
C8_ScenarioByLine ==
    /\ (Parsed /\ text = ScenarioText) =>
          /\ result[1].exc = "none"
          /\ Ast.objects = <<>>
          /\ Ast.assets = <<>>
    /\ (Parsed /\ text = ScenarioByLine) =>
          result[1].exc = "none" /\ IsScenarioIR(Ast)

\* the one-line scenario text was parsed
C8_Witness == Parsed /\ text = ScenarioText

\* C9: for a text with 'game', the IR's assets are the second tokens of the
\* lines that start with 'import ', without the double quotes around them,
\* in source order, repeated references kept.
C9_AssetExtraction ==
    (Parsed /\ HasGame(text)) =>
        LET P == Statements(text, ImportWord)
        IN  /\ result[1].exc = "none"
            /\ Len(Ast.assets) = Cardinality(P)
            /\ \A i \in 1..Cardinality(P) :
                  Ast.assets[i] = Unquoted(SecondToken(text, Nth(P, i)))

\* import "a.obj" then import "b.obj" was parsed into ["a.obj", "b.obj"]
C9_Witness ==
    /\ Parsed
    /\ text = ImportsText
    /\ result[1].exc = "none"
    /\ Ast.assets = <<<<"a", ".", "o", "b", "j">>, <<"b", ".", "o", "b", "j">>>>

(***************************************************************************)
(* Properties of the facade and the frame loop.                            *)
(***************************************************************************)

FiveSteps ==
    <<"Input.update", "Physics.update", "AI.update", "Renderer.render",
      "Audio.update">>

FourSteps ==
    <<"Renderer.shutdown", "Physics.shutdown", "Audio.shutdown",
      "AssetManager.cleanup">>

IsPrefixOf(s, t) == Len(s) <= Len(t) /\ s = SubSeq(t, 1, Len(s))

\* C2: load_code never lets an error escape: left to itself (no interrupt
\* during the call) it returns True when the text parses (it holds 'game')
\* and False when it does not, whatever the earlier calls returned, so a
\* caller that got False gets True with corrected text.
C2_LoadReturnsBool ==
    (ret.call = "load_code" /\ ret.exc # "KeyboardInterrupt") =>
        /\ ret.exc = "none"
        /\ ret.value = IF HasGame(ret.arg) THEN "True" ELSE "False"

\* C3: in every tick the five steps run in the order Input, Physics, AI,
\* Render, Audio, each exactly once, and the thread leaves a tick (for the
\* next tick or for good) only after its Audio.update.
C3_FiveStepsEveryTick ==
    /\ IsPrefixOf(tick_log, FiveSteps)
    /\ (tick_log # <<>> /\ pc # "update") => tick_log = FiveSteps

\* the steps by which run() goes on after the interrupt was caught
GoesOn ==
    \/ LoopStopped
    \/ RendererShutdown
    \/ PhysicsShutdown
    \/ AudioShutdown
    \/ AssetCleanup

\* C4: once the interrupt is delivered inside the frame loop, the thread is
\* out of the loop for the rest of the run (no further tick), the shutdown
\* steps run in the order Renderer, Physics, Audio, AssetManager, each
\* once, and, that interrupt being the only one of the run, run() returns
\* without an error after all four.
C4_InterruptStopsRun ==
    interrupted =>
        /\ pc \in {"except", "teardown", "idle"}
        /\ IsPrefixOf(teardown, FourSteps)
        /\ pc = "except" => teardown = <<>>
        /\ pc = "teardown" => Len(teardown) < 4
        /\ (pc = "idle" /\ ret.call = "run"
                        /\ ret.exc # "KeyboardInterrupt") =>
              ret.exc = "none" /\ teardown = FourSteps
        /\ pc # "idle" => ENABLED GoesOn

\* run() returned after an interrupt that arrived in the middle of a tick,
\* inside AI.update, after some of the enemies had moved
C4_Witness ==
    /\ interrupted
    /\ pc = "idle"
    /\ ret.call = "run"
    /\ ret.exc = "none"
    /\ tick_log = <<"Input.update", "Physics.update">>
    /\ \E i, j \in 1..Len(game_ir[cur][1].objects) :
          /\ game_ir[cur][1].objects[i].position[1] # 0
          /\ game_ir[cur][1].objects[j].position[1] = 0
          /\ game_ir[cur][1].objects[j].name = <<"e", "n", "e", "m", "y">>
    /\ teardown = FourSteps

\* C5: once the frame loop has exited, all four of Renderer.shutdown,
\* Physics.shutdown, Audio.shutdown and AssetManager.cleanup are executed
\* by the time run() is over, also when an earlier one of them fails.
C5_TeardownUnconditional ==
    (interrupted /\ pc = "idle" /\ ret.call = "run"
                 /\ ret.exc # "KeyboardInterrupt") =>
        \A i \in 1..4 : \E k \in 1..Len(teardown) : teardown[k] = FourSteps[i]

\* C6: whenever a run() enters its frame loop, every asset reference of
\* that runtime's IR has a handle in the Asset Registry.  Stated for the
\* runs that follow a load_code that returned True, where the constructor
\* of the handles works and no load_code was cut short by the interrupt.
C6_AssetsResolvable ==
    (pc = "top" /\ ticks = 0 /\ loaded[cur] /\ build.Box \in {Untried, "ok"}
                /\ \A i \in 1..Len(load_log[cur]) :
                      load_log[cur][i] # "interrupted") =>
        \A i \in 1..Len(game_ir[cur][1].assets) :
            game_ir[cur][1].assets[i] \in DOMAIN assets

\* the y coordinate, in tenths, of object i of the running runtime
PosY(ir, i) == ir[cur][1].objects[i].position[2]

\* C10: one Physics.update with delta_time dt > 0 takes position.y = Y0 >= 0
\* to max(Y0 - 9.8*dt, 0); position.y >= 0 after every Physics.update; an
\* object at 0 stays at 0 when dt > 0.
C10_FloorClamp ==
    [][(tick_log = <<"Input.update">> /\
        tick_log' = <<"Input.update", "Physics.update">>) =>
          \A i \in 1..Len(game_ir[cur][1].objects) :
              /\ PosY(game_ir', i) >= 0
              /\ (PosY(game_ir, i) >= 0 /\ delta_time > 0) =>
                    PosY(game_ir', i) =
                        IF PosY(game_ir, i) - 98 * delta_time > 0
                        THEN PosY(game_ir, i) - 98 * delta_time
                        ELSE 0
              /\ (PosY(game_ir, i) = 0 /\ delta_time > 0) =>
                    PosY(game_ir', i) = 0]_vars

\* Physics.update has run with dt > 0 on an object above the floor and left
\* it above the floor
C10_Witness ==
    /\ pc = "update"
    /\ tick_log = <<"Input.update", "Physics.update">>
    /\ delta_time > 0
    /\ \E i \in 1..Len(game_ir[cur][1].objects) : PosY(game_ir, i) > 0

\* the name is 'enemy' up to the case of its letters
IsEnemyNamed(name) ==
    /\ Len(name) = 5
    /\ name[1] \in {"e", "E"}
    /\ name[2] \in {"n", "N"}
    /\ name[3] \in {"e", "E"}
    /\ name[4] \in {"m", "M"}
    /\ name[5] \in {"y", "Y"}

\* the objects of the running runtime in an IR assignment
Objects(ir) == ir[cur][1].objects

\* C11: one AI.update with delta_time dt lowers position.x by exactly dt for
\* every object named 'enemy' in any letter case and leaves position.x of
\* every other object as it was.
C11_DriftSelectivity ==
    [][(tick_log = <<"Input.update", "Physics.update">> /\
        tick_log' = <<"Input.update", "Physics.update", "AI.update">>) =>
          /\ Len(Objects(game_ir')) = Len(Objects(game_ir))
          /\ \A i \in 1..Len(Objects(game_ir)) :
                Objects(game_ir')[i].position[1] =
                    IF IsEnemyNamed(Objects(game_ir)[i].name)
                    THEN Objects(game_ir)[i].position[1] - 10 * delta_time
                    ELSE Objects(game_ir)[i].position[1]]_vars

\* AI.update has run with dt > 0 over ENEMY, enemy, enemy2 and Player: the
\* first two have moved, the other two have not
C11_Witness ==
    /\ pc = "update"
    /\ tick_log = <<"Input.update", "Physics.update", "AI.update">>
    /\ delta_time > 0
    /\ ticks = 1
    /\ \E i, j, k, l \in 1..Len(Objects(game_ir)) :
          /\ Objects(game_ir)[i].name = <<"E", "N", "E", "M", "Y">>
          /\ Objects(game_ir)[i].position[1] = 0 - 10 * delta_time
          /\ Objects(game_ir)[j].name = <<"e", "n", "e", "m", "y">>
          /\ Objects(game_ir)[j].position[1] = 0 - 10 * delta_time
          /\ Objects(game_ir)[k].name = <<"e", "n", "e", "m", "y", "2">>
          /\ Objects(game_ir)[k].position[1] = 0
          /\ Objects(game_ir)[l].name = Player
          /\ Objects(game_ir)[l].position[1] = 0

\* object b is object a up to position.y, and up to position.x when a is
\* named 'enemy'
SameButMoved(a, b) ==
    /\ b.name = a.name
    /\ b.rotation = a.rotation
    /\ b.scale = a.scale
    /\ Len(b.position) = 3
    /\ b.position[3] = a.position[3]
    /\ b.position[1] # a.position[1] => IsEnemyNamed(a.name)

\* C12: after load, no step of a run changes the length or the order of the
\* object list or any object's name, rotation, scale or position.z; only
\* position.y and the position.x of enemy-named objects may change.
C12_ObjectListFrame ==
    [][~(calls' = calls + 1 /\ ret'.call = "load_code") =>
          \A r \in Runtimes :
              game_ir[r] # None =>
                 /\ game_ir'[r] # None
                 /\ Len(game_ir'[r][1].objects) = Len(game_ir[r][1].objects)
                 /\ \A i \in 1..Len(game_ir[r][1].objects) :
                       SameButMoved(game_ir[r][1].objects[i],
                                    game_ir'[r][1].objects[i])
                 /\ game_ir'[r][1].assets = game_ir[r][1].assets]_vars

\* two ticks have moved an enemy along x and lifted the objects off y = 0
C12_Witness ==
    /\ pc = "sleep"
    /\ ticks = 2
    /\ \E i, j \in 1..Len(Objects(game_ir)) :
          /\ Objects(game_ir)[i].position[1] # 0
          /\ Objects(game_ir)[j].position[2] # 0
          /\ Objects(game_ir)[j].name = Player

\* C13: every delta_time the frame loop passes to the tick function is
\* strictly greater than 0, the one of the first tick included.
C13_DeltaPositive == pc = "update" => delta_time > 0

\* the references of a list
RefsOf(l) == {l[i] : i \in 1..Len(l)}

\* C14: load_assets always succeeds and leaves the registry with the keys
\* it had plus the references of the list, one handle each, so loading
\* references that are all registered changes nothing; cleanup leaves the
\* registry empty from any state, without error.
C14_RegistryAlgebra ==
    [][/\ ret'.call = "load_assets" =>
             /\ ret'.exc = "none"
             /\ DOMAIN assets' = DOMAIN assets \cup RefsOf(ret'.arg)
             /\ \A k \in DOMAIN assets' : assets'[k] = "Box"
             /\ RefsOf(ret'.arg) \subseteq DOMAIN assets => assets' = assets
       /\ ret'.call = "cleanup" =>
             /\ ret'.exc = "none"
             /\ DOMAIN assets' = {}]_vars

\* C15: there is no mid-tick cancellation: when the frame loop has been
\* stopped by the interrupt, the tick that had started has run its five
\* steps, Renderer.render among them after Physics.update and AI.update.
C15_NoMidTickCancellation ==
    (pc \in {"except", "teardown"} /\ tick_log # <<>>) =>
        /\ Len(tick_log) = 5
        /\ tick_log[2] = "Physics.update"
        /\ tick_log[3] = "AI.update"
        /\ tick_log[4] = "Renderer.render"

\* the six-letter word kw and a space stand at position j
WordAt(t, j, kw) ==
    /\ j + 6 <= Len(t)
    /\ \A k \in 0..5 : t[j + k] = kw[k + 1]
    /\ t[j + 6] = " "

\* C16: only a line whose trimmed form starts with 'object ' or 'import '
\* adds an entry: the objects and the assets of the IR are together as many
\* as those lines, whatever other occurrences of the two words the text has.
C16_PrefixMatchOnly ==
    (Parsed /\ result[1].exc = "none") =>
        Len(Ast.objects) + Len(Ast.assets) =
            Cardinality(Statements(text, ObjectWord)
                            \cup Statements(text, ImportWord))

\* a text was parsed in which 'object ' stands in the middle of a line and
\* 'import ' opens another: the IR has the asset and no object
C16_Witness ==
    /\ Parsed
    /\ result[1].exc = "none"
    /\ \E j \in 1..Len(text) :
          WordAt(text, j, ObjectWord) /\ ~StatementAt(text, j, ObjectWord)
    /\ Statements(text, ImportWord) # {}
    /\ Ast.objects = <<>>
    /\ Len(Ast.assets) = 1

\* C17: a load_code call that returns False changes neither the game_ir of
\* any runtime nor the asset registry, so the IR of an earlier successful
\* load is the one a later run() works on.
C17_FailedLoadFrame ==
    [][(calls' = calls + 1 /\ ret'.call = "load_code"
                           /\ ret'.value = "False") =>
           /\ game_ir' = game_ir
           /\ assets' = assets]_vars

\* run() has done a tick on a runtime whose loads were one accepted text and
\* then one rejected text
C17_Witness ==
    /\ pc = "sleep"
    /\ tick_log = FiveSteps
    /\ load_log[cur] = <<"True", "False">>
    /\ game_ir[cur] # None
    /\ Len(Objects(game_ir)) > 0

\* the thread stands at the call of Renderer.render
AtRender ==
    /\ pc = "update"
    /\ tick_log = <<"Input.update", "Physics.update", "AI.update">>

\* C18: in the first run() after a successful load_code, at the call of
\* Renderer.render of every tick, the position.x of each object named
\* enemy (in any case) is minus the sum of the delta_times so far, which is
\* the reading of line 162 minus the latest reading of line 165; the
\* position.x of every other object is 0; and if no delta_time was
\* negative, every position.y is 0.
C18_FirstRunPositions ==
    (AtRender /\ runs[cur] = 1) =>
        /\ dt_sum = last_time
        /\ \A i \in 1..Len(Objects(game_ir)) :
              LET o == Objects(game_ir)[i]
              IN  /\ IsEnemyNamed(o.name) =>
                        /\ o.position[1] = 0 - 10 * dt_sum
                        /\ o.position[1] = 10 * (0 - last_time)
                  /\ ~IsEnemyNamed(o.name) => o.position[1] = 0
                  /\ ~dt_neg => o.position[2] = 0

\* the second tick of a first run is at Renderer.render after two
\* positive delta_times, with enemies and other objects in the scene
C18_Witness ==
    /\ AtRender
    /\ runs[cur] = 1
    /\ ticks = 2
    /\ ~dt_neg
    /\ dt_sum = 2
    /\ \E i \in 1..Len(Objects(game_ir)) :
          IsEnemyNamed(Objects(game_ir)[i].name)
    /\ \E i \in 1..Len(Objects(game_ir)) :
          ~IsEnemyNamed(Objects(game_ir)[i].name)

\* C19: a run() on a runtime on which no load_code returned True (and none
\* was cut short by the interrupt), itself not interrupted, fails with
\* AttributeError after the four inits, with no tick started and no
\* shutdown or cleanup step done.
C19_RunWithoutLoad ==
    (ret.call = "run" /\ ~loaded[ret.rt]
                      /\ ret.exc # "KeyboardInterrupt"
                      /\ \A i \in 1..Len(load_log[ret.rt]) :
                            load_log[ret.rt][i] # "interrupted") =>
        /\ ticks = 0
        /\ tick_log = <<>>
        /\ teardown = <<>>
        /\ pc = "idle" =>
              /\ ret.exc = "AttributeError"
              /\ inits = <<"Renderer.init", "Physics.init", "AI.init",
                           "Audio.init">>

====
